---- MODULE Spec2Model ----
(***************************************************************************)
(* Model of news.py: the Streamlit script of the "News vs Stock Price      *)
(* Analyzer".  One script run is executed per user action; the Analyze run *)
(* is split at the acquisition loop so that every iteration is a state.    *)
(*                                                                         *)
(* Texts whose characters matter (ticker input, chat draft, URL host) are  *)
(* sequences of one-character strings.  Texts of which only the length     *)
(* matters (HTTP body, extracted article, evaluation) are modelled by      *)
(* their length.                                                           *)
(***************************************************************************)
EXTENDS Integers, Sequences, FiniteSets

VARIABLES
    api_key,              \* GROQ_API_KEY is set (line 11)
    view,                 \* st.session_state.view
    chat_open,            \* st.session_state.chat_open
    chat_messages,        \* st.session_state.chat_messages
    last_evaluation,      \* st.session_state.last_evaluation
    last_ticker,          \* st.session_state.last_ticker
    last_price,           \* st.session_state.last_price
    chat_draft,           \* st.session_state.chat_draft
    pc,                   \* "idle": waiting for the user, "crawl": inside the
                          \* acquisition loop, "rerun": st.rerun() requested
    ticker,               \* script variable ticker (normalised)
    price,                \* script variable price
    links,                \* script variable links
    web,                  \* what each link answers in this run (environment)
    successful_articles,  \* script variable successful_articles
    attempted,            \* script variable attempted
    http_gets,            \* requests.get calls issued in this run
    provider,             \* outcome of the news provider in this run
    run_end,              \* how the last script run ended
    run_error,            \* text of the st.error shown in the run, or NoError
    price_shown,          \* st.success("Current Price ...") was shown
    charts_rendered,      \* the Market Snapshot section was rendered
    analyze_calls,        \* calls of analyze_with_groq in this run
    remote_posts,         \* POSTs to GROQ_ENDPOINT in this run
    chat_request,         \* request sent by chat_with_groq in this run
    panel,                \* chat widgets on screen after the run
    dropped_turns,        \* turns removed from the transcript in this run
    turn_ticker           \* history: session ticker when each turn was added

session == <<view, chat_open, chat_messages, last_evaluation, last_ticker,
             last_price, chat_draft, turn_ticker>>
locals == <<ticker, price, links, web, successful_articles, attempted,
            http_gets>>
report == <<provider, run_end, run_error, price_shown, charts_rendered,
            analyze_calls, remote_posts, chat_request, panel, dropped_turns>>
vars == <<api_key, session, pc, locals, report>>

(***************************************************************************)
(* Bounds of the model                                                     *)
(***************************************************************************)
MaxLinks == 7       \* longest link list tried by the acquisition loop
MaxTurns == 24      \* longest transcript

(***************************************************************************)
(* Program constants                                                       *)
(***************************************************************************)
TargetCount == 5
MinBodyChars == 2000
MinTextChars == 300
HistoryTurns == 20
EvalContextChars == 2500
StatusOK == 200

BLOCKED_DOMAINS ==
    { <<"g","l","o","b","e","a","n","d","m","a","i","l",".","c","o","m">>,
      <<"s","e","e","k","i","n","g","a","l","p","h","a",".","c","o","m">>,
      <<"b","e","n","z","i","n","g","a",".","c","o","m">>,
      <<"w","s","j",".","c","o","m">>,
      <<"f","t",".","c","o","m">> }

MsgNoPrice == "Could not fetch stock price. Check ticker."
MsgNoLinks == "No news links found."
MsgNoArticles == "Could not extract content from any source."
MsgNoKey == "GROQ_API_KEY not set."
NoError == ""

(***************************************************************************)
(* Strings                                                                 *)
(***************************************************************************)
UpperOf == [c \in {"f", "t", "w", "s", "j"} |->
              CASE c = "f" -> "F" [] c = "t" -> "T" [] c = "w" -> "W"
                [] c = "s" -> "S" [] c = "j" -> "J"]
LowerOf == [c \in {"F", "T", "W", "S", "J"} |->
              CASE c = "F" -> "f" [] c = "T" -> "t" [] c = "W" -> "w"
                [] c = "S" -> "s" [] c = "J" -> "j"]

upper(s) == [i \in 1..Len(s) |-> IF s[i] \in DOMAIN UpperOf THEN UpperOf[s[i]] ELSE s[i]]
lower(s) == [i \in 1..Len(s) |-> IF s[i] \in DOMAIN LowerOf THEN LowerOf[s[i]] ELSE s[i]]

IsSpace(c) == c = " "

RECURSIVE lstrip(_)
lstrip(s) == IF s # <<>> /\ IsSpace(Head(s)) THEN lstrip(Tail(s)) ELSE s

RECURSIVE rstrip(_)
rstrip(s) == IF s # <<>> /\ IsSpace(s[Len(s)]) THEN rstrip(SubSeq(s, 1, Len(s) - 1)) ELSE s

strip(s) == rstrip(lstrip(s))

\* needle in hay (Python substring test)
Contains(hay, needle) ==
    \E i \in 0..(Len(hay) - Len(needle)) : SubSeq(hay, i + 1, i + Len(needle)) = needle

\* seq[-n:]
last_n(s, n) == IF Len(s) <= n THEN s ELSE SubSeq(s, Len(s) - n + 1, Len(s))

Min(a, b) == IF a <= b THEN a ELSE b

(***************************************************************************)
(* Values                                                                  *)
(***************************************************************************)
NoUrl == [netloc |-> <<>>, path |-> <<>>]           \* r.get("url") is None or ""
None == [none |-> TRUE]                             \* Python None for a text
Text(u, core, pad) == [none |-> FALSE, src |-> u, core |-> core, pad |-> pad]
NoPrice == -1                                       \* Python None for a price
NoEvaluation == [ticker |-> <<>>, chars |-> 0]      \* ""
NoRequest == [none |-> TRUE]

text_len(t) == t.core + t.pad                       \* len(text)
text_strip(t) == [t EXCEPT !.pad = 0]               \* text.strip()

(***************************************************************************)
(* Pure functions of the script                                            *)
(***************************************************************************)

\* search_news: the provider's urls, without empty ones, first occurrence kept
RECURSIVE search_news_from(_, _)
search_news_from(results, links0) ==
    IF results = <<>> THEN links0
    ELSE LET url == Head(results).url IN
         search_news_from(Tail(results),
             IF url # NoUrl /\ \A i \in 1..Len(links0) : links0[i] # url
             THEN Append(links0, url) ELSE links0)

search_news(results) == search_news_from(results, <<>>)

is_blocked_domain(url) ==
    LET domain == lower(url.netloc) IN
    \E bad \in BLOCKED_DOMAINS : Contains(domain, bad)

\* crawl_article: the returned text (or None) and the requests.get calls made.
\* resp is what the site answers: raises ("no", "get", "extract"), status,
\* body (len(resp.text)) and text (what trafilatura.extract returns).
\* variant: the request is issued before the deny-list test
crawl_article_fetch_first(url, resp) ==
    IF resp.raises = "get" THEN [text |-> None, gets |-> 1]
    ELSE IF is_blocked_domain(url) THEN [text |-> None, gets |-> 1]
    ELSE IF resp.status # StatusOK \/ resp.body < MinBodyChars THEN [text |-> None, gets |-> 1]
    ELSE IF resp.raises = "extract" THEN [text |-> None, gets |-> 1]
    ELSE IF ~resp.text.none /\ text_len(resp.text) > 0
            /\ text_len(text_strip(resp.text)) > MinTextChars
         THEN [text |-> text_strip(resp.text), gets |-> 1]
         ELSE [text |-> None, gets |-> 1]

\* variant: both thresholds compared the other way at the boundary
crawl_article_inclusive(url, resp) ==
    IF is_blocked_domain(url) THEN [text |-> None, gets |-> 0]
    ELSE IF resp.raises = "get" THEN [text |-> None, gets |-> 1]
    ELSE IF resp.status # StatusOK \/ resp.body <= MinBodyChars THEN [text |-> None, gets |-> 1]
    ELSE IF resp.raises = "extract" THEN [text |-> None, gets |-> 1]
    ELSE IF ~resp.text.none /\ text_len(resp.text) > 0
            /\ text_len(text_strip(resp.text)) >= MinTextChars
         THEN [text |-> text_strip(resp.text), gets |-> 1]
         ELSE [text |-> None, gets |-> 1]

crawl_article(url, resp) ==
    IF is_blocked_domain(url) THEN [text |-> None, gets |-> 0]
    ELSE IF resp.raises = "get" THEN [text |-> None, gets |-> 1]
    ELSE IF resp.status # StatusOK \/ resp.body < MinBodyChars THEN [text |-> None, gets |-> 1]
    ELSE IF resp.raises = "extract" THEN [text |-> None, gets |-> 1]
    ELSE IF ~resp.text.none /\ text_len(resp.text) > 0
            /\ text_len(text_strip(resp.text)) > MinTextChars
         THEN [text |-> text_strip(resp.text), gets |-> 1]
         ELSE [text |-> None, gets |-> 1]

\* "if not price": None and 0.0 are both falsy
price_missing(p) == p = NoPrice \/ p = 0

\* the loop's "if len(successful_articles) >= 5: break"
\* variant: "> 5"
loop_break_after(articles) == Len(articles) > TargetCount

loop_break(articles) == Len(articles) >= TargetCount

\* "if text: successful_articles.append(text)"
\* variant: appended without the test
collect_any(articles, text) == Append(articles, text)

collect(articles, text) ==
    IF ~text.none /\ text_len(text) > 0 THEN Append(articles, text) ELSE articles

\* "if not successful_articles"
\* variant: the check is missing
no_articles_never(articles) == FALSE

no_articles(articles) == articles = <<>>

\* "if st.session_state.last_ticker and st.session_state.last_ticker != ticker"
\* variant: the reset is missing
ticker_changed_never(last, t) == FALSE

ticker_changed(last, t) == last # <<>> /\ last # t

\* show_chat (line 505)
\* variant: the evaluation is not tested
show_chat_any_evaluation(v, evaluation, t) == v = "analysis" /\ t # <<>>

show_chat(v, evaluation, t) ==
    v = "analysis" /\ evaluation.chars > 0 /\ t # <<>>

\* chat_with_groq: the request posted (NoRequest when none is) and the reply
ChatReply == <<"reply">>
NotConfiguredReply == <<MsgNoKey>>

\* variant: the evaluation text is not cut
chat_with_groq_whole_evaluation(t, p, evaluation_text, chat_history, user_message) ==
    IF ~api_key THEN [request |-> NoRequest, reply |-> NotConfiguredReply]
    ELSE [request |-> [none |-> FALSE,
                       ticker |-> t,
                       price |-> p,
                       eval_context |-> evaluation_text.chars,
                       history |-> last_n(chat_history, HistoryTurns),
                       user |-> user_message],
          reply |-> ChatReply]

chat_with_groq(t, p, evaluation_text, chat_history, user_message) ==
    IF ~api_key THEN [request |-> NoRequest, reply |-> NotConfiguredReply]
    ELSE [request |-> [none |-> FALSE,
                       ticker |-> t,
                       price |-> p,
                       eval_context |-> Min(evaluation_text.chars, EvalContextChars),
                       history |-> last_n(chat_history, HistoryTurns),
                       user |-> user_message],
          reply |-> ChatReply]

(***************************************************************************)
(* Inputs: what the user types, what the services answer                   *)
(***************************************************************************)
TickerTexts == { <<>>, <<" ">>, <<" ", "f">>, <<"F">>, <<"t", " ">> }
Drafts == { <<" ">>, <<"h", "i", " ">> }
Prices == { NoPrice, 0, 10 }
EvalChars == { 0, EvalContextChars, EvalContextChars + 1 }

HostNews == <<"n","e","w","s",".","c","o","m">>
HostDown == <<"d","o","w","n",".","o","r","g">>
HostWSJ == <<"W","W","W",".","W","S","J",".","c","o","m">>
HostSwift == <<"s","w","i","f","t",".","c","o","m">>
Digit == <<"1", "2", "3", "4", "5", "6", "7", "8", "9">>
Link(host, i) == [netloc |-> host, path |-> <<"/", Digit[i]>>]
Hit(host, i) == [url |-> Link(host, i)]

GoodPage(u) == [raises |-> "no", status |-> 200, body |-> 2000, text |-> Text(u, 301, 2)]
ErrorPage(u) == [raises |-> "no", status |-> 404, body |-> 5000, text |-> Text(u, 900, 0)]
SimplePage(u) == IF u.netloc = HostDown THEN ErrorPage(u) ELSE GoodPage(u)

UrlsOf(results) == { results[i].url : i \in DOMAIN results } \ { NoUrl }
WorldOf(results) ==
    [raises |-> FALSE, results |-> results,
     web |-> [u \in UrlsOf(results) |-> SimplePage(u)]]
ProviderDown == [raises |-> TRUE, results |-> <<>>, web |-> <<>>]

\* the provider's answers tried with the whole interface
Worlds ==
    { ProviderDown,
      WorldOf(<<>>),
      WorldOf(<< [url |-> NoUrl] >>),
      WorldOf(<< Hit(HostDown, 1), Hit(HostWSJ, 2) >>),
      WorldOf(<< Hit(HostDown, 1), Hit(HostNews, 2), Hit(HostNews, 2), [url |-> NoUrl] >>),
      WorldOf(<< Hit(HostNews, 1), Hit(HostDown, 2), Hit(HostNews, 3), Hit(HostNews, 4),
                 Hit(HostNews, 5), Hit(HostNews, 6), Hit(HostNews, 7) >>) }

\* every list of up to MaxLinks links over three kinds of host
ListWorlds ==
    UNION { { WorldOf([i \in 1..n |-> Hit(f[i], i)]) :
                f \in [1..n -> {HostNews, HostDown, HostWSJ}] } : n \in 0..MaxLinks }

\* one link, every answer around the thresholds
PageUrls ==
    { Link(HostNews, 1), Link(HostWSJ, 1), Link(HostSwift, 1),
      [netloc |-> HostNews, path |-> <<"/","w","s","j",".","c","o","m">>] }
PageAnswers(u) ==
    { [raises |-> r, status |-> s, body |-> b, text |-> t] :
        r \in {"no", "get", "extract"}, s \in {200, 404}, b \in {1999, 2000},
        t \in {None} \cup { Text(u, c, p) : c \in {0, 300, 301}, p \in {0, 2} } }
PageWorlds ==
    UNION { { [raises |-> FALSE, results |-> << [url |-> u] >>, web |-> [v \in {u} |-> a]] :
                a \in PageAnswers(u) } : u \in PageUrls }

AcquireWorlds == ListWorlds \cup PageWorlds

(***************************************************************************)
(* The script                                                              *)
(***************************************************************************)
Init ==
    /\ api_key \in BOOLEAN
    /\ view = "home"
    /\ chat_open = FALSE
    /\ chat_messages = <<>>
    /\ last_evaluation = NoEvaluation
    /\ last_ticker = <<>>
    /\ last_price = NoPrice
    /\ chat_draft = <<>>
    /\ turn_ticker = <<>>
    /\ pc = "idle"
    /\ ticker = <<>>
    /\ price = NoPrice
    /\ links = <<>>
    /\ web = <<>>
    /\ successful_articles = <<>>
    /\ attempted = 0
    /\ http_gets = 0
    /\ provider = "none"
    /\ run_end = "normal"
    /\ run_error = NoError
    /\ price_shown = FALSE
    /\ charts_rendered = TRUE
    /\ analyze_calls = 0
    /\ remote_posts = 0
    /\ chat_request = NoRequest
    /\ panel = "none"
    /\ dropped_turns = 0

\* st.stop() after st.error(msg): nothing below is executed or rendered
Stop(msg) ==
    /\ run_error' = msg
    /\ run_end' = "stop"
    /\ charts_rendered' = FALSE
    /\ panel' = "none"
    /\ pc' = "idle"

\* lines 442-588 when no button of the chat panel is pressed in this run,
\* from the session values v, open, evaluation, t the run has reached
ScriptTail(v, open, evaluation, t, msg) ==
    /\ charts_rendered' = TRUE
    /\ IF show_chat(v, evaluation, t)
       THEN /\ chat_open' = open
            /\ chat_draft' = IF open THEN msg ELSE chat_draft
            /\ panel' = IF open THEN "expanded" ELSE "collapsed"
       ELSE /\ chat_open' = FALSE
            /\ chat_draft' = chat_draft
            /\ panel' = "none"
    /\ run_end' = "normal"
    /\ pc' = "idle"

NoLoop ==
    /\ links' = <<>>
    /\ web' = <<>>
    /\ successful_articles' = <<>>
    /\ attempted' = 0
    /\ http_gets' = 0

\* "Analyze" pressed: lines 368-396, up to the acquisition loop
AnalyzeClicked(texts, worlds) ==
    /\ pc = "idle"
    /\ \E text \in texts, p \in Prices, w \in worlds :
        /\ analyze_calls' = 0
        /\ remote_posts' = 0
        /\ chat_request' = NoRequest
        /\ dropped_turns' = 0
        /\ UNCHANGED <<api_key, chat_messages, turn_ticker, last_evaluation,
                       last_ticker, last_price>>
        /\ IF strip(text) = <<>>
           THEN /\ view' = "home"
                /\ \E msg \in Drafts :
                     ScriptTail("home", FALSE, last_evaluation, last_ticker, msg)
                /\ ticker' = text
                /\ UNCHANGED price
                /\ NoLoop
                /\ provider' = "none"
                /\ price_shown' = FALSE
                /\ run_error' = NoError
           ELSE /\ ticker' = upper(strip(text))
                /\ view' = "analysis"
                /\ price' = p
                /\ IF price_missing(p)
                   THEN /\ Stop(MsgNoPrice)
                        /\ price_shown' = FALSE
                        /\ provider' = "none"
                        /\ NoLoop
                        /\ UNCHANGED <<chat_open, chat_draft>>
                   ELSE /\ price_shown' = TRUE
                        /\ UNCHANGED <<chat_open, chat_draft>>
                        /\ IF w.raises
                           THEN /\ provider' = "raised"
                                /\ run_end' = "exception"
                                /\ run_error' = NoError
                                /\ charts_rendered' = FALSE
                                /\ panel' = "none"
                                /\ pc' = "idle"
                                /\ NoLoop
                           ELSE IF search_news(w.results) = <<>>
                           THEN /\ provider' = "empty"
                                /\ Stop(MsgNoLinks)
                                /\ NoLoop
                           ELSE /\ provider' = "results"
                                /\ links' = search_news(w.results)
                                /\ web' = w.web
                                /\ successful_articles' = <<>>
                                /\ attempted' = 0
                                /\ http_gets' = 0
                                /\ run_end' = "running"
                                /\ run_error' = NoError
                                /\ charts_rendered' = FALSE
                                /\ panel' = "none"
                                /\ pc' = "crawl"

\* one iteration of the acquisition loop, lines 401-415
CrawlStep ==
    /\ pc = "crawl"
    /\ attempted < Len(links)
    /\ ~loop_break(successful_articles)
    /\ LET link == links[attempted + 1]
           got == crawl_article(link, web[link])
       IN  /\ attempted' = attempted + 1
           /\ successful_articles' = collect(successful_articles, got.text)
           /\ http_gets' = http_gets + got.gets
    /\ UNCHANGED <<api_key, session, pc, ticker, price, links, web, report>>

\* after the loop: lines 417-439, then the rest of the script
AnalyzeFinish ==
    /\ pc = "crawl"
    /\ attempted = Len(links) \/ loop_break(successful_articles)
    /\ NoLoop
    /\ UNCHANGED <<api_key, view, ticker, price, provider, price_shown, chat_request>>
    /\ IF no_articles(successful_articles)
       THEN /\ Stop(MsgNoArticles)
            /\ UNCHANGED <<chat_open, chat_messages, turn_ticker, last_evaluation,
                           last_ticker, last_price, chat_draft, analyze_calls,
                           remote_posts, dropped_turns>>
       ELSE IF ~api_key
       THEN /\ Stop(MsgNoKey)
            /\ UNCHANGED <<chat_open, chat_messages, turn_ticker, last_evaluation,
                           last_ticker, last_price, chat_draft, analyze_calls,
                           remote_posts, dropped_turns>>
       ELSE \E n \in EvalChars, msg \in Drafts :
            LET result == [ticker |-> ticker, chars |-> n]
                changed == ticker_changed(last_ticker, ticker)
            IN  /\ analyze_calls' = analyze_calls + 1
                /\ remote_posts' = remote_posts + 1
                /\ chat_messages' = IF changed THEN <<>> ELSE chat_messages
                /\ dropped_turns' = IF changed THEN Len(chat_messages) ELSE 0
                /\ turn_ticker' = IF changed THEN <<>> ELSE turn_ticker
                /\ last_evaluation' = result
                /\ last_ticker' = ticker
                /\ last_price' = price
                /\ run_error' = NoError
                /\ ScriptTail(view, IF changed THEN FALSE ELSE chat_open,
                              result, ticker, msg)

\* a run with no button pressed: after st.rerun(), or after editing a field
Rerun ==
    /\ pc \in {"idle", "rerun"}
    /\ \E msg \in Drafts :
         ScriptTail(view, chat_open, last_evaluation, last_ticker, msg)
    /\ provider' = "none"
    /\ run_error' = NoError
    /\ price_shown' = FALSE
    /\ analyze_calls' = 0
    /\ remote_posts' = 0
    /\ chat_request' = NoRequest
    /\ dropped_turns' = 0
    /\ UNCHANGED <<api_key, view, chat_messages, turn_ticker, last_evaluation,
                   last_ticker, last_price, locals>>

\* what Open, "-" and Send have in common
ChatRun ==
    /\ pc = "idle"
    /\ provider' = "none"
    /\ run_error' = NoError
    /\ price_shown' = FALSE
    /\ analyze_calls' = 0
    /\ dropped_turns' = 0
    /\ UNCHANGED <<api_key, view, last_evaluation, last_ticker, last_price, locals>>

\* "Open" pressed in the collapsed panel, lines 584-586
OpenClicked ==
    /\ panel = "collapsed"
    /\ ChatRun
    /\ remote_posts' = 0
    /\ chat_request' = NoRequest
    /\ UNCHANGED <<chat_messages, turn_ticker>>
    /\ IF show_chat(view, last_evaluation, last_ticker) /\ ~chat_open
       THEN /\ chat_open' = TRUE
            /\ charts_rendered' = TRUE
            /\ run_end' = "rerun"
            /\ pc' = "rerun"
            /\ UNCHANGED <<chat_draft, panel>>
       ELSE \E msg \in Drafts :
              ScriptTail(view, chat_open, last_evaluation, last_ticker, msg)

\* "-" pressed in the expanded panel, lines 545-547
MinimizeClicked ==
    /\ panel = "expanded"
    /\ ChatRun
    /\ remote_posts' = 0
    /\ chat_request' = NoRequest
    /\ UNCHANGED <<chat_messages, turn_ticker>>
    /\ \E msg \in Drafts :
         IF show_chat(view, last_evaluation, last_ticker) /\ chat_open
         THEN /\ chat_draft' = msg
              /\ chat_open' = FALSE
              /\ charts_rendered' = TRUE
              /\ run_end' = "rerun"
              /\ pc' = "rerun"
              /\ UNCHANGED panel
         ELSE ScriptTail(view, chat_open, last_evaluation, last_ticker, msg)

\* "Send" pressed in the expanded panel, lines 550-564
SendClicked ==
    /\ panel = "expanded"
    /\ Len(chat_messages) + 2 <= MaxTurns
    /\ ChatRun
    /\ \E msg \in Drafts :
         IF show_chat(view, last_evaluation, last_ticker) /\ chat_open /\ strip(msg) # <<>>
         THEN LET user_msg == strip(msg)
                  with_user == Append(chat_messages, [role |-> "user", content |-> user_msg])
                  history_for_model == last_n(with_user, HistoryTurns)
                  call == chat_with_groq(last_ticker, last_price, last_evaluation,
                                         history_for_model, user_msg)
              IN  /\ chat_draft' = <<>>
                  /\ chat_messages' =
                       Append(with_user, [role |-> "assistant", content |-> call.reply])
                  /\ turn_ticker' = turn_ticker \o <<last_ticker, last_ticker>>
                  /\ chat_request' = call.request
                  /\ remote_posts' = IF call.request = NoRequest THEN 0 ELSE 1
                  /\ charts_rendered' = TRUE
                  /\ run_end' = "rerun"
                  /\ pc' = "rerun"
                  /\ UNCHANGED <<chat_open, panel>>
         ELSE /\ ScriptTail(view, chat_open, last_evaluation, last_ticker, msg)
              /\ remote_posts' = 0
              /\ chat_request' = NoRequest
              /\ UNCHANGED <<chat_messages, turn_ticker>>

Analyze == AnalyzeClicked(TickerTexts, Worlds)

Next ==
    \/ Analyze
    \/ CrawlStep
    \/ AnalyzeFinish
    \/ Rerun
    \/ OpenClicked
    \/ MinimizeClicked
    \/ SendClicked

Spec == Init /\ [][Next]_vars

\* Analyze runs up to the end of the acquisition loop, over every short link
\* list and every page answer
AnalyzeAnyList == AnalyzeClicked({ <<"F">> }, AcquireWorlds)

NextAcquire ==
    \/ AnalyzeAnyList
    \/ CrawlStep

SpecAcquire == Init /\ [][NextAcquire]_vars

(***************************************************************************)
(* Properties of the acquisition loop (SpecAcquire)                        *)
(***************************************************************************)
\* the loop is over: no iteration is left to run
LoopEnded ==
    pc = "crawl" /\ (attempted = Len(links) \/ loop_break(successful_articles))

\* C1. Bounded yield: at every point of the acquisition loop and at its end
\* there are at most TargetCount articles, no more articles than attempts and
\* no more attempts than links; and when the loop ends before the last link,
\* exactly TargetCount articles were collected.
C1_BoundedYield ==
    /\ Len(successful_articles) <= 5
    /\ Len(successful_articles) <= attempted
    /\ attempted <= Len(links)
    /\ (LoopEnded /\ attempted < Len(links)) => Len(successful_articles) = 5

C1_EarlyStop ==
    /\ LoopEnded
    /\ attempted < Len(links)
    /\ Len(successful_articles) = 5
    /\ attempted > 5

\* what one link gives when it is crawled in this run
TextOf(u) == crawl_article(u, web[u]).text
Extractable(u) == ~TextOf(u).none

\* the texts of the first k extractable links among ls[1..n], in list order,
\* and the position of the k-th of them (n when there are fewer)
RECURSIVE FirstTexts(_, _, _, _)
FirstTexts(ls, n, k, i) ==
    IF i > n \/ k = 0 THEN [texts |-> <<>>, last |-> IF k = 0 THEN i - 1 ELSE n]
    ELSE IF Extractable(ls[i])
         THEN LET rest == FirstTexts(ls, n, k - 1, i + 1)
              IN  [texts |-> <<TextOf(ls[i])>> \o rest.texts, last |-> rest.last]
         ELSE FirstTexts(ls, n, k, i + 1)

\* C2. Soft-failure isolation: whatever the pattern of extractable and
\* non-extractable links, the articles collected so far are the texts of the
\* first extractable links among those attempted, in list order; when the loop
\* ends they are the texts of the first min(5, g) extractable links of the
\* whole list, and attempted is the position of the 5th extractable link if
\* there is one, else the length of the list (so it is the length of the list
\* when every extraction fails).
C2_SoftFailureIsolation ==
    pc = "crawl" =>
        /\ successful_articles = FirstTexts(links, attempted, 5, 1).texts
        /\ LoopEnded =>
            LET whole == FirstTexts(links, Len(links), 5, 1)
            IN  /\ successful_articles = whole.texts
                /\ attempted = whole.last
                /\ whole.texts = <<>> =>
                     (successful_articles = <<>> /\ attempted = Len(links))

C2_SuccessAfterFailures ==
    /\ LoopEnded
    /\ Len(successful_articles) = 2
    /\ attempted = Len(links)
    /\ \E i, j \in 1..attempted :
         i < j /\ ~Extractable(links[i]) /\ Extractable(links[j])

\* C7. Extractor thresholds: a link that is not blocked, answered with status
\* 200 and whose extraction returned, gives an article iff the body has at
\* least 2000 characters and the trimmed text more than 300; the article is
\* the trimmed text.
C7_ExtractorThresholds ==
    \A i \in 1..attempted :
        LET u == links[i]
            a == web[u]
            t == IF a.text.none THEN 0 ELSE a.text.core
        IN  (~is_blocked_domain(u) /\ a.raises = "no" /\ a.status = 200) =>
              /\ (\E n \in 1..Len(successful_articles) : successful_articles[n].src = u)
                    <=> (a.body >= 2000 /\ t > 300)
              /\ \A n \in 1..Len(successful_articles) :
                    successful_articles[n].src = u =>
                       successful_articles[n] = Text(u, t, 0)

C7_AtTheBoundary ==
    /\ attempted = 1
    /\ web[links[1]].body = 2000
    /\ web[links[1]].text = Text(links[1], 301, 2)
    /\ successful_articles = << Text(links[1], 301, 0) >>

\* C8. Blocked-domain short-circuit: a link whose host contains a deny-list
\* entry gives no article and no HTTP request; the requests issued in a run
\* are as many as the attempted links that are not blocked.
C8_BlockedShortCircuit ==
    /\ http_gets = Cardinality({ i \in 1..attempted : ~is_blocked_domain(links[i]) })
    /\ \A n \in 1..Len(successful_articles) : ~is_blocked_domain(successful_articles[n].src)

C8_BlockedSkipped ==
    /\ attempted = 3
    /\ http_gets = 1
    /\ Len(successful_articles) = 1
    /\ \E i \in 1..attempted : links[i].netloc = HostWSJ

(***************************************************************************)
(* Properties of the session (Spec)                                        *)
(***************************************************************************)

\* C3. Conversation context bound: every request of a chat send carries at
\* most 20 transcript turns before the final user message and at most 2500
\* characters of evaluation text.
C3_ContextBound ==
    chat_request # NoRequest =>
        /\ Len(chat_request.history) <= 20
        /\ chat_request.eval_context <= 2500

C3_LongTranscriptSent ==
    /\ chat_request # NoRequest
    /\ Len(chat_messages) > 21
    /\ last_evaluation.chars > 2500
    /\ Len(chat_request.history) = 20
    /\ chat_request.eval_context = 2500

\* C4. Reset on ticker change: in every step in which the session ticker goes
\* from a non-empty value to another value, the transcript is emptied and the
\* evaluation replaced by one of the new ticker; so every turn of the
\* transcript was added while the session ticker had its current value.
C4_ResetOnTickerChange ==
    /\ [](/\ Len(turn_ticker) = Len(chat_messages)
          /\ \A i \in 1..Len(turn_ticker) : turn_ticker[i] = last_ticker)
    /\ [][(last_ticker # <<>> /\ last_ticker' # last_ticker) =>
            /\ chat_messages' = <<>>
            /\ last_evaluation'.ticker = last_ticker'
            /\ last_evaluation' # last_evaluation]_vars

C4_TranscriptDropped ==
    /\ dropped_turns > 0
    /\ chat_messages = <<>>
    /\ last_ticker = <<"T">>
    /\ last_evaluation.ticker = <<"T">>

\* C5. Link discovery never raises: when the news provider raises or yields
\* nothing, the run ends in the "no links" state.
C5_DiscoveryNeverRaises ==
    provider \in {"raised", "empty"} =>
        (run_end = "stop" /\ run_error = MsgNoLinks)

\* C6. A missing API key disables only the analysis: the run that reaches the
\* credential check without a key still shows the price and the Market
\* Snapshot, reports "not configured" and posts nothing.
C6_MissingKeyKeepsCharts ==
    (~api_key /\ pc = "idle" /\ provider = "results" /\ run_error # MsgNoArticles) =>
        /\ price_shown
        /\ charts_rendered
        /\ run_error = MsgNoKey
        /\ remote_posts = 0

\* C9. The evaluation is requested only on a usable result: analyze_with_groq
\* is called only with a price, at least one link and at least one article;
\* a run with no link and a run with links but no article end in two
\* different error states, and both leave the session's ticker, price,
\* evaluation and transcript as they were.
C9_AnalysisOnlyWhenUsable ==
    [][/\ (analyze_calls' = 1 /\ analyze_calls = 0) =>
            (~price_missing(price) /\ links # <<>> /\ successful_articles # <<>>)
       /\ (pc = "idle" /\ provider' = "empty") =>
            (run_end' = "stop" /\ run_error' = MsgNoLinks)
       /\ (pc = "crawl" /\ pc' = "idle" /\ successful_articles = <<>>) =>
            (run_end' = "stop" /\ run_error' = MsgNoArticles)
       /\ MsgNoLinks # MsgNoArticles
       /\ (run_error' \in {MsgNoLinks, MsgNoArticles} \/ pc' = "crawl") =>
            UNCHANGED <<last_ticker, last_price, last_evaluation, chat_messages>>
      ]_vars

C9_NoArticlesKeepsSession ==
    /\ run_end = "stop"
    /\ run_error = MsgNoArticles
    /\ last_ticker = <<"F">>
    /\ ticker = <<"T">>
    /\ chat_messages # <<>>
    /\ analyze_calls = 0

====
